---- MODULE Spec2Model ----
(***************************************************************************)
(* Model of UpDownLoaderBot (src/main.py): the message handler             *)
(* handle_message, the permission gate check_bot_permissions and the       *)
(* retrying fetcher download_reel with check_file.                         *)
(*                                                                         *)
(* Texts, identifiers, captions and paths are sequences of one-character   *)
(* strings, so that INSTAGRAM_REEL_PATTERN is matched character by         *)
(* character as Python's re module matches it.                             *)
(***************************************************************************)
EXTENDS Integers, Sequences, FiniteSets, TLC

\* ------------------------------------------------------------------ bounds
\* Largest number of links in a message whose text embeds links in prose.
MaxLinks == 2
\* Largest size, in bytes, of a video file the provider writes.
MaxFileSize == 1

\* --------------------------------------------------------------- constants
MAX_RETRIES == 3
RETRY_DELAY == 2

\* ------------------------------------------------------------- characters
Lower == {"a","b","c","d","e","f","g","h","i","j","k","l","m",
          "n","o","p","q","r","s","t","u","v","w","x","y","z"}
Upper == {"A","B","C","D","E","F","G","H","I","J","K","L","M",
          "N","O","P","Q","R","S","T","U","V","W","X","Y","Z"}
Digit == {"0","1","2","3","4","5","6","7","8","9"}

\* [a-zA-Z0-9._-], the class of the optional path segment
SegChars == Lower \cup Upper \cup Digit \cup {".", "_", "-"}
\* [a-zA-Z0-9_-], the class of the captured shortcode
TokChars == Lower \cup Upper \cup Digit \cup {"_", "-"}

\* The literal pieces of the pattern.
LitHttp  == <<"h","t","t","p">>
LitColon == <<":","/","/">>
LitWww   == <<"w","w","w",".">>
LitHost  == <<"i","n","s","t","a","g","r","a","m",".","c","o","m","/">>
LitReel  == <<"r","e","e","l","/">>
LitQuery == <<"/","?">>

\* text[i..] starts with the literal lit
HasAt(t, i, lit) ==
    /\ i >= 1
    /\ i + Len(lit) - 1 <= Len(t)
    /\ \A k \in 1..Len(lit) : t[i + k - 1] = lit[k]

\* A literal that must match at p: the position after it, 0 when it does
\* not match (or when what precedes it did not: p = 0)
Need(t, p, lit) == IF HasAt(t, p, lit) THEN p + Len(lit) ELSE 0

\* An optional literal, taken when it is there (lit?)
SkipOpt(t, p, lit) == IF HasAt(t, p, lit) THEN p + Len(lit) ELSE p

\* Length of the longest run of characters of class C starting at t[i]
RECURSIVE Run(_, _, _)
Run(t, i, C) ==
    IF i >= 1 /\ i <= Len(t) /\ t[i] \in C THEN 1 + Run(t, i + 1, C) ELSE 0

\* Length of the longest run of non-space characters starting at t[i]: [^ ]*
RECURSIVE RunNonSpace(_, _)
RunNonSpace(t, i) ==
    IF i >= 1 /\ i <= Len(t) /\ t[i] # " " THEN 1 + RunNonSpace(t, i + 1) ELSE 0

\* Position after https?://(?:www\.)?instagram\.com/ matched at i, 0 if it
\* does not match there.  Neither s? nor (?:www\.)? has a second way to
\* match: the character each one skips cannot start what follows it.
HostEnd(t, i) ==
    Need(t, SkipOpt(t, Need(t, SkipOpt(t, Need(t, i, LitHttp), <<"s">>),
                            LitColon),
                    LitWww),
         LitHost)

\* Start of the shortcode when reel/ and one shortcode character match at q
TokHere(t, s) == IF s > 0 /\ Run(t, s, TokChars) > 0 THEN s ELSE 0
TokAt(t, q) == TokHere(t, Need(t, q, LitReel))

\* Position after the path segment [a-zA-Z0-9._-]+/ whose run of r
\* characters starts at p, 0 when there is none.  The run cannot be cut
\* short: the character after a shorter run is not "/".
SegEnd(t, p, r) == IF p > 0 /\ r > 0 THEN Need(t, p + r, <<"/">>) ELSE 0

\* Where the shortcode can start when the host part ends at p, in the order
\* the backtracking matcher tries them: with the optional path segment
\* (?:[a-zA-Z0-9._-]+/)? taken, then with it skipped.
TokStartsAfter(t, p) ==
    SelectSeq(<<TokAt(t, SegEnd(t, p, Run(t, p, SegChars))), TokAt(t, p)>>,
              LAMBDA x : x > 0)

TokStarts(t, i) == TokStartsAfter(t, HostEnd(t, i))

\* Where (?:/\?[^ ]*)?/? ends when matched greedily at e1
TailEnd(t, e1) ==
    IF HasAt(t, e1, LitQuery) THEN e1 + 2 + RunNonSpace(t, e1 + 2)
    ELSE SkipOpt(t, e1, <<"/">>)

\* The match whose shortcode is t[s..e1-1]
MatchTok(t, s, e1) ==
    [ok |-> TRUE, group |-> SubSeq(t, s, e1 - 1), end |-> TailEnd(t, e1)]

\* The first match in priority order given the shortcode starts ts:
\* everything after the shortcode is optional and greedy
MatchFrom(t, i, ts) ==
    IF ts = <<>> THEN [ok |-> FALSE, group |-> <<>>, end |-> i]
    ELSE MatchTok(t, ts[1], ts[1] + Run(t, ts[1], TokChars))

\* re.search semantics at position i
MatchAt(t, i) == MatchFrom(t, i, TokStarts(t, i))

\* re.findall(INSTAGRAM_REEL_PATTERN, text): group 1 of every
\* non-overlapping match, left to right
RECURSIVE FindAllFrom(_, _)
RECURSIVE FindAllStep(_, _, _)
FindAllStep(t, i, m) ==
    IF m.ok THEN <<m.group>> \o FindAllFrom(t, m.end)
    ELSE FindAllFrom(t, i + 1)

FindAllFrom(t, i) ==
    IF i > Len(t) THEN <<>> ELSE FindAllStep(t, i, MatchAt(t, i))

FindAll(t) == FindAllFrom(t, 1)

\* Where the match can end when /\? has matched and [^ ]* starts at q
QueryEnds(t, q) ==
    UNION { {q + m, SkipOpt(t, q + m, <<"/">>)} : m \in 0..RunNonSpace(t, q) }

\* Where the match can end when the shortcode ends before e1
TokEnds(t, e1) ==
    {e1, SkipOpt(t, e1, <<"/">>)}
    \cup (IF HasAt(t, e1, LitQuery) THEN QueryEnds(t, e1 + 2) ELSE {})

\* Where the match can end when the shortcode starts at s
EndsFrom(t, s) == UNION { TokEnds(t, s + k) : k \in 1..Run(t, s, TokChars) }

\* Every position at which some way of matching the pattern from 1 can end
MatchEndsOf(t, ts) == UNION { EndsFrom(t, ts[j]) : j \in 1..Len(ts) }

MatchEnds(t) == MatchEndsOf(t, TokStarts(t, 1))

\* INSTAGRAM_REEL_PATTERN.fullmatch(text) is not None
FullMatch(t) == (Len(t) + 1) \in MatchEnds(t)

\* ------------------------------------------------------------------ texts
Chars_https == <<"h","t","t","p","s",":","/","/">>
Chars_reel  == <<"r","e","e","l","/">>

\* Shortcode of the j-th link of a generated text: "A", "B", "C", ...
ShortcodeLetters == <<"A","B","C","D","E","F","G","H">>
Shortcode(j) == <<ShortcodeLetters[j]>>

\* https://instagram.com/reel/<shortcode>, the form SourceLink builds (85)
PlainLink(sc) == Chars_https \o LitHost \o Chars_reel \o sc

\* http://www.instagram.com/user.name/reel/<shortcode>/?x
FancyLink(sc) ==
    LitHttp \o LitColon \o LitWww \o LitHost
    \o <<"u",".","n","/">> \o Chars_reel \o sc \o <<"/","?","x">>

\* https://www.instagram.com/reel/<shortcode>/
WwwLink(sc) == Chars_https \o LitWww \o LitHost \o Chars_reel \o sc \o <<"/">>

\* "hi" followed by n links, each preceded by a space
RECURSIVE Embedded(_)
Embedded(n) ==
    IF n = 0 THEN <<"h","i">>
    ELSE Embedded(n - 1) \o <<" ">> \o WwwLink(Shortcode(n))

\* The texts a message can carry; <<>> is a message without text.
MessageTexts ==
    {<<>>, PlainLink(Shortcode(1)), FancyLink(Shortcode(1))}
    \cup {Embedded(n) : n \in 0..MaxLinks}

\* Every shortcode a message text can yield
Shortcodes == UNION {{FindAll(t)[k] : k \in 1..Len(FindAll(t))} : t \in MessageTexts}

\* ---------------------------------------------------------------- updates
ChatTypes == {"private", "group", "supergroup", "channel"}

\* update.message or update.channel_post; "none" is an update carrying
\* neither.  A channel post is what a channel delivers; a message is what
\* the other chat types deliver.
Updates ==
    {[kind |-> "none", chatType |-> "private", text |-> <<>>]}
    \cup {[kind |-> "message", chatType |-> c, text |-> t] :
            c \in {"private", "group", "supergroup"}, t \in MessageTexts}
    \cup {[kind |-> "channel_post", chatType |-> "channel", text |-> t] :
            t \in MessageTexts}

\* ------------------------------------------------------ chat transport
\* How a chat-transport call ends: it returns, raises telegram.error.BadRequest
\* or raises another telegram.error.TelegramError (TimedOut, Forbidden, ...).
Outcomes == {"ok", "BadRequest", "TelegramError"}

RequiredRights ==
    {"can_send_messages", "can_send_media_messages", "can_send_other_messages"}

\* A membership record: its status and, for an administrator, each required
\* right as an attribute that is True, False or absent.
NoRights == [r \in RequiredRights |-> "missing"]
Members ==
    {[status |-> "administrator", rights |-> f] :
        f \in [RequiredRights -> {"True", "False", "missing"}]}
    \cup {[status |-> s, rights |-> NoRights] : s \in {"member", "restricted", "left"}}

NoMember == [status |-> "none", rights |-> NoRights]

\* One entry of the trace of collaborator calls made while handling a message
Call(c, o, r, cap, rep) ==
    [cmd |-> c, out |-> o, reel |-> r, caption |-> cap, reply |-> rep]

\* ------------------------------------------------------------ file system
TEMP_DIR == <<"t","e","m","p","_","d","o","w","n","l","o","a","d","s">>

\* TEMP_DIR / f'{shortcode}.mp4'
VideoPath(shortcode) == TEMP_DIR \o <<"/">> \o shortcode \o <<".","m","p","4">>

Paths == {VideoPath(sc) : sc \in Shortcodes}

\* What video_path.exists() and video_path.stat().st_size see of a path
NoFile == [exists |-> FALSE, size |-> 0]
File(n) == [exists |-> TRUE, size |-> n]
FileStates == {NoFile} \cup {File(n) : n \in 0..MaxFileSize}

\* TEMP_DIR when a message arrives: empty after clean_temp_directory, or
\* holding what an earlier handling of the first shortcode left there
InitialDirs ==
    {f \in [Paths -> FileStates] :
        \A p \in Paths \ {VideoPath(Shortcode(1))} : f[p] = NoFile}

\* f"https://instagram.com/reel/{reel_id}"
SourceLink(reel_id) == Chars_https \o LitHost \o Chars_reel \o reel_id


\* ------------------------------------------------------------------ state
VARIABLES
    update,        \* the update handed to handle_message
    pc,            \* where handle_message stands: the await it is suspended at
    exc,           \* the exception that left handle_message, "none" if none
    log,           \* the collaborator calls made so far, in order, with outcomes
    deleted,       \* the original message has been deleted from the chat
    reaction,      \* the thumbs-down reaction is attached to the original message
    permitted,     \* what check_bot_permissions returned: "True", "False", "None"
    bot_member,    \* check_bot_permissions' local: what get_member returned
    reel_matches,  \* handle_message's local: re.findall(...)
    is_link_only,  \* handle_message's local: fullmatch(...) is not None
    idx,           \* position of the for loop in reel_matches
    video_path,    \* handle_message's local: what download_reel returned
    fs,            \* TEMP_DIR: the state of each video file
    dl,            \* download_reel: "idle", "running", "returned", "raised"
    retry_count,   \* download_reel's local
    last_error,    \* download_reel's local
    attempts,      \* how each attempt of the current download_reel call ended
    sleeps,        \* the suspensions of the current download_reel call
    raised         \* the exception download_reel raised

vars == <<update, pc, exc, log, deleted, reaction, permitted, bot_member,
          reel_matches, is_link_only, idx, video_path, fs, dl, retry_count,
          last_error, attempts, sleeps, raised>>

\* The locals of download_reel and what it raised
dlvars == <<dl, retry_count, last_error, attempts, sleeps, raised>>
\* The locals of handle_message set before the loop
hvars == <<update, permitted, bot_member, reel_matches, is_link_only>>

NoError  == [set |-> FALSE, e |-> "", shortcode |-> <<>>]
NoRaise  == [type |-> "none", error |-> NoError, count |-> 0]
NoPath   == <<>>

effective_message_present == update.kind \in {"message", "channel_post"}

reel_id == reel_matches[idx]

Init ==
    /\ update \in Updates
    /\ pc = "start"
    /\ exc = "none"
    /\ log = <<>>
    /\ deleted = FALSE
    /\ reaction = FALSE
    /\ permitted = "unset"
    /\ bot_member = NoMember
    /\ reel_matches = <<>>
    /\ is_link_only = FALSE
    /\ idx = 0
    /\ video_path = NoPath
    /\ fs \in InitialDirs
    /\ dl = "idle"
    /\ retry_count = 0
    /\ last_error = NoError
    /\ attempts = <<>>
    /\ sleeps = <<>>
    /\ raised = NoRaise

\* ------------------------------------------------- check_bot_permissions
\* A variant that compares the chat type with a string no chat type equals
IsPrivateChat_WrongCase(chatType) == chatType = "PRIVATE"

\* chat.type == ChatType.PRIVATE: return True before any lookup
IsPrivateChat(chatType) == chatType = "private"

\* A variant of the attribute read whose default is True
GetAttr_DefaultTrue(m, right) == m.rights[right] # "False"

\* getattr(bot_member, right, False)
GetAttr(m, right) == m.rights[right] = "True"

\* The loop over required_rights: every required right is set
HasRequiredRights(m) == \A r \in RequiredRights : GetAttr(m, r)

\* chat.type == ChatType.SUPERGROUP and bot_member.status == ADMINISTRATOR
SupergroupAdmin(chatType, m) ==
    chatType = "supergroup" /\ m.status = "administrator"

\* What check_bot_permissions returns once get_member has returned m.
\* A record of status "administrator" is a ChatMemberAdministrator.  The
\* function ends without a return for any other status: None.
GateRules(chatType, m) ==
    IF SupergroupAdmin(chatType, m) THEN "True"
    ELSE IF m.status = "administrator"
         THEN IF HasRequiredRights(m) THEN "True" ELSE "False"
         ELSE IF m.status = "member" THEN "True" ELSE "None"

\* except BadRequest: the lookup errors check_bot_permissions turns into False
GateCatches(o) == o = "BadRequest"

\* ---------------------------------------------------------- download_reel
\* A variant whose loop admits one more pass
LoopContinues_OneMore(rc) == rc <= MAX_RETRIES + 1

\* while retry_count <= MAX_RETRIES
LoopContinues(rc) == rc <= MAX_RETRIES

\* A variant of the test before the sleep that skips the suspension before
\* the last attempt
SleepsBeforeRetry_Strict(rc) == rc < MAX_RETRIES

\* if retry_count <= MAX_RETRIES: await asyncio.sleep(RETRY_DELAY)
SleepsBeforeRetry(rc) == rc <= MAX_RETRIES

\* A variant of check_file without the size test
check_file_ExistsOnly(file) ==
    IF ~file.exists THEN "FileNotFoundError" ELSE "none"

\* check_file: "none" when the file passes, else the exception it raises
check_file(file) ==
    IF ~file.exists THEN "FileNotFoundError"
    ELSE IF file.size = 0 THEN "ValueError_empty"
    ELSE "none"

\* How the provider can behave in one attempt: from_shortcode raises; the
\* post is not a video; download_post raises; download_post returns having
\* written the video, having left an empty file, or without touching the file.
ProviderOutcomes ==
    {"resolve_error", "not_video", "download_error", "written", "truncated", "skipped"}

\* The file after the provider has acted; n is the size it writes
FileAfter(o, n, before) ==
    IF o = "written" THEN File(n)
    ELSE IF o = "truncated" THEN File(0)
    ELSE before

\* The exception that ends the try block of one attempt, "none" if it
\* reaches return video_path; after is the file the provider leaves
AttemptError(o, after) ==
    IF o = "resolve_error" THEN "ProviderError"
    ELSE IF o = "not_video" THEN "ValueError_not_video"
    ELSE IF o = "download_error" THEN "DownloadPostError"
    ELSE check_file(after)

\* A variant that keeps the first error captured instead of the last
FormatError_KeepFirst(prev, e, shortcode) ==
    IF prev.set THEN prev ELSE [set |-> TRUE, e |-> e, shortcode |-> shortcode]

\* last_error = f"Unexpected error: {str(e)} for {shortcode}"
FormatError(prev, e, shortcode) == [set |-> TRUE, e |-> e, shortcode |-> shortcode]

\* raise ErrorDownload(last_error, retry_count)
ErrorDownload(err, rc) == [type |-> "ErrorDownload", error |-> err, count |-> rc]

\* ------------------------------------------- handle_message: its choices
\* A variant of the test of the gate's result that compares it with False
Denied_IsFalse(result) == result = "False"

\* if not await check_bot_permissions(update, context): None is falsy
Denied(result) == result # "True"

\* A variant with the two delivery calls swapped
DeliveryCall_Swapped(link_only) == IF link_only THEN "reply_video" ELSE "send_video"

\* if is_link_only: chat.send_video(...) else: effective_message.reply_video(...)
DeliveryCall(link_only) == IF link_only THEN "send_video" ELSE "reply_video"

\* A variant of the except clause that answers with a text instead
FailureSignal_Text == "reply_text"

\* except Exception as e: await effective_message.set_reaction(THUMBS_DOWN)
FailureSignal == "set_reaction"


\* --------------------------------------------------------- handle_message
\* A variant whose loop body runs once before the sequence is tested
EnterIteration_BodyFirst(i, matches) ==
    /\ idx' = i
    /\ pc' = IF i > Len(matches) /\ i > 1 THEN "done"
             ELSE IF update.kind = "message" THEN "chat_action_1"
             ELSE FailureSignal

\* The head of the for loop at position i of matches, up to the first await
\* of the iteration.  update.message is None for a channel post, so
\* update.message.chat raises AttributeError there, which the except clause
\* of the iteration catches: the handler goes on to set_reaction.
EnterIteration(i, matches) ==
    /\ idx' = i
    /\ pc' = IF i > Len(matches) THEN "done"
             ELSE IF update.kind = "message" THEN "chat_action_1"
             ELSE FailureSignal

\* The head of download_reel's while loop with counter rc and last error
\* err; lg is the trace of calls up to here.
LoopHead(rc, err, lg) ==
    IF LoopContinues(rc)
    THEN /\ pc' = "download"
         /\ dl' = "running"
         /\ raised' = NoRaise
         /\ log' = lg
    ELSE /\ pc' = FailureSignal
         /\ dl' = "raised"
         /\ raised' = ErrorDownload(err, rc)
         /\ log' = Append(lg, Call("download_reel", "ErrorDownload", reel_id, <<>>, FALSE))

\* download_reel's frame is gone once the handler has taken its result
ClearDownload ==
    /\ dl' = "idle"
    /\ retry_count' = 0
    /\ last_error' = NoError
    /\ attempts' = <<>>
    /\ sleeps' = <<>>
    /\ raised' = NoRaise

\* handle_message up to its first await: the effective message and its
\* text, then check_bot_permissions up to get_member
HandleMessage ==
    /\ pc = "start"
    /\ IF ~effective_message_present \/ update.text = <<>>
       THEN pc' = "done" /\ UNCHANGED permitted
       ELSE IF IsPrivateChat(update.chatType)
            THEN pc' = "gate_returned" /\ permitted' = "True"
            ELSE pc' = "get_member" /\ UNCHANGED permitted
    /\ UNCHANGED <<update, exc, log, deleted, reaction, bot_member, reel_matches,
                   is_link_only, idx, video_path, fs>>
    /\ UNCHANGED dlvars

\* await chat.get_member(context.bot.id) returns the record m; the rules
\* decide
GetMemberReturns(m) ==
    /\ pc = "get_member"
    /\ log' = Append(log, Call("get_member", "ok", <<>>, <<>>, FALSE))
    /\ bot_member' = m
    /\ permitted' = GateRules(update.chatType, m)
    /\ pc' = "gate_returned"
    /\ UNCHANGED <<update, exc, deleted, reaction, reel_matches, is_link_only,
                   idx, video_path, fs>>
    /\ UNCHANGED dlvars

\* await chat.get_member(context.bot.id) raises o: BadRequest is caught and
\* turned into False, any other error leaves check_bot_permissions and,
\* uncaught in handle_message, the handler
GetMemberRaises(o) ==
    /\ pc = "get_member"
    /\ o # "ok"
    /\ log' = Append(log, Call("get_member", o, <<>>, <<>>, FALSE))
    /\ IF GateCatches(o)
       THEN permitted' = "False" /\ pc' = "gate_returned" /\ UNCHANGED exc
       ELSE pc' = "crashed" /\ exc' = o /\ UNCHANGED permitted
    /\ UNCHANGED <<update, deleted, reaction, bot_member, reel_matches,
                   is_link_only, idx, video_path, fs>>
    /\ UNCHANGED dlvars

\* if not await check_bot_permissions(...): the denial branch up to
\* reply_text, or the extraction and the head of the loop
Dispatch ==
    /\ pc = "gate_returned"
    /\ bot_member' = NoMember
    /\ IF Denied(permitted)
       THEN /\ pc' = IF update.chatType # "channel" THEN "reply_text" ELSE "done"
            /\ UNCHANGED <<reel_matches, is_link_only, idx>>
       ELSE /\ reel_matches' = FindAll(update.text)
            /\ is_link_only' = FullMatch(update.text)
            /\ EnterIteration(1, FindAll(update.text))
    /\ UNCHANGED <<update, exc, log, deleted, reaction, permitted, video_path, fs>>
    /\ UNCHANGED dlvars

\* await effective_message.reply_text(...) inside try/except BadRequest
ReplyText(o) ==
    /\ pc = "reply_text"
    /\ log' = Append(log, Call("reply_text", o, <<>>, <<>>, TRUE))
    /\ IF o \in {"ok", "BadRequest"}
       THEN pc' = "done" /\ UNCHANGED exc
       ELSE pc' = "crashed" /\ exc' = o
    /\ UNCHANGED <<update, deleted, reaction, permitted, bot_member, reel_matches,
                   is_link_only, idx, video_path, fs>>
    /\ UNCHANGED dlvars

\* The first await update.message.chat.send_chat_action(UPLOAD_VIDEO); when
\* it returns, download_reel is entered
ChatAction1(o) ==
    /\ pc = "chat_action_1"
    /\ IF o = "ok"
       THEN /\ retry_count' = 1
            /\ last_error' = NoError
            /\ attempts' = <<>>
            /\ sleeps' = <<>>
            /\ LoopHead(1, NoError,
                        Append(log, Call("send_chat_action", o, reel_id, <<>>, FALSE)))
       ELSE /\ pc' = FailureSignal
            /\ log' = Append(log, Call("send_chat_action", o, reel_id, <<>>, FALSE))
            /\ UNCHANGED dlvars
    /\ UNCHANGED <<exc, deleted, reaction, idx, video_path, fs>>
    /\ UNCHANGED hvars

\* One pass of download_reel's try block with the provider behaving as o,
\* then the increment and the test before the sleep
Attempt(o, n) ==
    /\ pc = "download"
    /\ o # "written" => n = 1
    /\ LET path == VideoPath(reel_id)
           e    == AttemptError(o, FileAfter(o, n, fs[path]))
       IN  /\ fs' = [fs EXCEPT ![path] = FileAfter(o, n, fs[path])]
           /\ IF e = "none"
              THEN /\ video_path' = path
                   /\ attempts' = Append(attempts, "ok")
                   /\ dl' = "returned"
                   /\ pc' = "chat_action_2"
                   /\ log' = Append(log, Call("download_reel", "ok", reel_id, <<>>, FALSE))
                   /\ UNCHANGED <<retry_count, last_error, raised>>
              ELSE /\ last_error' = FormatError(last_error, e, reel_id)
                   /\ retry_count' = retry_count + 1
                   /\ attempts' = Append(attempts, e)
                   /\ UNCHANGED video_path
                   /\ IF SleepsBeforeRetry(retry_count + 1)
                      THEN pc' = "sleep" /\ UNCHANGED <<dl, raised, log>>
                      ELSE LoopHead(retry_count + 1,
                                    FormatError(last_error, e, reel_id), log)
    /\ UNCHANGED <<exc, deleted, reaction, idx, sleeps>>
    /\ UNCHANGED hvars

\* await asyncio.sleep(RETRY_DELAY), then back to the head of the loop
Sleep ==
    /\ pc = "sleep"
    /\ sleeps' = Append(sleeps, [after |-> Len(attempts), len |-> RETRY_DELAY])
    /\ LoopHead(retry_count, last_error, log)
    /\ UNCHANGED <<exc, deleted, reaction, idx, video_path, fs, retry_count,
                   last_error, attempts>>
    /\ UNCHANGED hvars

\* The second await send_chat_action; when it returns, open(video_path, 'rb')
\* and the choice of the delivery call
ChatAction2(o) ==
    /\ pc = "chat_action_2"
    /\ log' = Append(log, Call("send_chat_action", o, reel_id, <<>>, FALSE))
    /\ ClearDownload
    /\ pc' = IF o # "ok" \/ ~fs[video_path].exists THEN FailureSignal
             ELSE DeliveryCall(is_link_only)
    /\ UNCHANGED <<exc, deleted, reaction, idx, video_path, fs>>
    /\ UNCHANGED hvars

\* A variant that goes on to the delete whether send_video succeeded or not
SendVideo_DeleteAnyway(o) ==
    /\ pc = "send_video"
    /\ log' = Append(log, Call("send_video", o, reel_id, SourceLink(reel_id), FALSE))
    /\ pc' = "delete"
    /\ UNCHANGED <<exc, deleted, reaction, idx, video_path, fs>>
    /\ UNCHANGED hvars
    /\ UNCHANGED dlvars

\* await effective_message.chat.send_video(video=..., caption=source_link)
SendVideo(o) ==
    /\ pc = "send_video"
    /\ log' = Append(log, Call("send_video", o, reel_id, SourceLink(reel_id), FALSE))
    /\ pc' = IF o = "ok" THEN "delete" ELSE FailureSignal
    /\ UNCHANGED <<exc, deleted, reaction, idx, video_path, fs>>
    /\ UNCHANGED hvars
    /\ UNCHANGED dlvars

\* await effective_message.delete(), then the next iteration
Delete(o) ==
    /\ pc = "delete"
    /\ log' = Append(log, Call("delete", o, reel_id, <<>>, FALSE))
    /\ IF o = "ok"
       THEN deleted' = TRUE /\ EnterIteration(idx + 1, reel_matches)
       ELSE pc' = FailureSignal /\ UNCHANGED <<deleted, idx>>
    /\ UNCHANGED <<exc, reaction, video_path, fs>>
    /\ UNCHANGED hvars
    /\ UNCHANGED dlvars

\* A variant that does not wait for the outcome of reply_video: the loop
\* goes on to the next identifier whether the video was sent or not
ReplyVideo_FireAndForget(o) ==
    /\ pc = "reply_video"
    /\ log' = Append(log, Call("reply_video", o, reel_id, SourceLink(reel_id), TRUE))
    /\ EnterIteration(idx + 1, reel_matches)
    /\ UNCHANGED <<exc, deleted, reaction, video_path, fs>>
    /\ UNCHANGED hvars
    /\ UNCHANGED dlvars

\* await effective_message.reply_video(video=..., reply_to_message_id=...,
\* caption=source_link), then the next iteration
ReplyVideo(o) ==
    /\ pc = "reply_video"
    /\ log' = Append(log, Call("reply_video", o, reel_id, SourceLink(reel_id), TRUE))
    /\ IF o = "ok"
       THEN EnterIteration(idx + 1, reel_matches)
       ELSE pc' = FailureSignal /\ UNCHANGED idx
    /\ UNCHANGED <<exc, deleted, reaction, video_path, fs>>
    /\ UNCHANGED hvars
    /\ UNCHANGED dlvars

\* except Exception: await effective_message.set_reaction(THUMBS_DOWN); an
\* error of set_reaction is raised inside the except clause and leaves the
\* handler
SetReaction(o) ==
    /\ pc = "set_reaction"
    /\ log' = Append(log, Call("set_reaction", o, reel_id, <<>>, FALSE))
    /\ ClearDownload
    /\ IF o = "ok"
       THEN reaction' = TRUE /\ EnterIteration(idx + 1, reel_matches) /\ UNCHANGED exc
       ELSE pc' = "crashed" /\ exc' = o /\ UNCHANGED <<reaction, idx>>
    /\ UNCHANGED <<deleted, video_path, fs>>
    /\ UNCHANGED hvars

Next ==
    \/ HandleMessage
    \/ \E m \in Members : GetMemberReturns(m)
    \/ \E o \in Outcomes : GetMemberRaises(o)
    \/ Dispatch
    \/ \E o \in Outcomes : ReplyText(o)
    \/ \E o \in Outcomes : ChatAction1(o)
    \/ \E o \in ProviderOutcomes, n \in 1..MaxFileSize : Attempt(o, n)
    \/ Sleep
    \/ \E o \in Outcomes : ChatAction2(o)
    \/ \E o \in Outcomes : SendVideo(o)
    \/ \E o \in Outcomes : Delete(o)
    \/ \E o \in Outcomes : ReplyVideo(o)
    \/ \E o \in Outcomes : SetReaction(o)

Spec == Init /\ [][Next]_vars

\* --------------------------------------------------- the extraction alone
\* The longest padding put before and after a link
MaxPad == 1

\* What surrounds a link in a text: white space and other characters
PadChars == {" ", "\n", "x", "!"}
Pads == UNION {[1..k -> PadChars] : k \in 0..MaxPad}

\* The three shapes of a link: bare, with a trailing slash, with a query
Links == {PlainLink(Shortcode(1)), WwwLink(Shortcode(1)), FancyLink(Shortcode(1))}

\* effective_message.text: a link with padding before and after it
PaddedTexts == {lead \o link \o trail : lead \in Pads, link \in Links, trail \in Pads}

\* A private-chat message carrying one of these texts arrives
TextInit ==
    /\ update \in {[kind |-> "message", chatType |-> "private", text |-> t] :
                      t \in PaddedTexts}
    /\ pc = "start"
    /\ exc = "none"
    /\ log = <<>>
    /\ deleted = FALSE
    /\ reaction = FALSE
    /\ permitted = "unset"
    /\ bot_member = NoMember
    /\ reel_matches = <<>>
    /\ is_link_only = FALSE
    /\ idx = 0
    /\ video_path = NoPath
    /\ fs \in InitialDirs
    /\ dl = "idle"
    /\ retry_count = 0
    /\ last_error = NoError
    /\ attempts = <<>>
    /\ sleeps = <<>>
    /\ raised = NoRaise

\* handle_message up to the head of the loop: lines 57-61, then 74-77
TextNext ==
    \/ HandleMessage
    \/ Dispatch

TextSpec == TextInit /\ [][TextNext]_vars

\* ------------------------------------------- handlers of other messages
\* While this handler is suspended at an await, the handler of another
\* message runs up to its own next await.  Its locals and its message are
\* its own; what it shares with this handler is TEMP_DIR, where an attempt
\* of its download_reel call (line 164) writes the file of its shortcode.
\* The other message carries the first shortcode, as the messages that
\* left files in InitialDirs did.
OtherHandlerDownloads ==
    /\ pc \notin {"done", "crashed"}
    /\ \E o \in {"written", "truncated"}, n \in 1..MaxFileSize :
            /\ FileAfter(o, n, fs[VideoPath(Shortcode(1))]) # fs[VideoPath(Shortcode(1))]
            /\ fs' = [fs EXCEPT ![VideoPath(Shortcode(1))] =
                                    FileAfter(o, n, fs[VideoPath(Shortcode(1))])]
    /\ UNCHANGED <<exc, log, deleted, reaction, idx, video_path, pc>>
    /\ UNCHANGED hvars
    /\ UNCHANGED dlvars

InterleavedNext ==
    \/ Next
    \/ OtherHandlerDownloads

InterleavedSpec == Init /\ [][InterleavedNext]_vars

\* ---------------------------------------------------------------- progress
\* Every awaited call returns or raises, and the event loop resumes the
\* coroutine then: a step of the handler that is possible is eventually taken
FairSpec == Spec /\ WF_vars(Next)


\* ================================================================ claims
\* download_reel has ended with every attempt it made recorded
Failed(k) == k <= Len(attempts) /\ attempts[k] # "ok"

\* C1: whenever download_reel returns, at whichever attempt and after
\* whatever the provider did before, the path it returns is
\* TEMP_DIR/<shortcode>.mp4 and the file at that path exists and has a size
\* greater than 0 at the moment of the return.
C1_ReturnedFileIsValid ==
    dl = "returned" =>
        /\ video_path = VideoPath(reel_id)
        /\ fs[video_path].exists
        /\ fs[video_path].size > 0

\* download_reel has returned at its second or third attempt, after an
\* attempt that left an empty file
C1_Witness ==
    /\ dl = "returned"
    /\ Len(attempts) >= 2
    /\ attempts[1] = "ValueError_empty"

\* C2: when the provider fails on attempts 1 and 2, download_reel is still
\* running and makes a third attempt; when that one succeeds it returns
\* with its counter at 3, having suspended once between attempts 1 and 2 and
\* exactly once, for RETRY_DELAY, between attempts 2 and 3.
C2_ThirdAttemptSucceeds ==
    /\ (Len(attempts) = 2 /\ Failed(1) /\ Failed(2)) =>
            dl = "running" /\ pc \in {"sleep", "download"}
    /\ (Len(attempts) = 3 /\ Failed(1) /\ Failed(2) /\ attempts[3] = "ok") =>
            /\ dl = "returned"
            /\ retry_count = 3
            /\ Cardinality({i \in DOMAIN sleeps : sleeps[i].after = 2}) = 1
            /\ sleeps = <<[after |-> 1, len |-> RETRY_DELAY],
                          [after |-> 2, len |-> RETRY_DELAY]>>

\* download_reel has returned at its third attempt
C2_Witness ==
    /\ dl = "returned"
    /\ Len(attempts) = 3
    /\ Failed(1) /\ Failed(2)
    /\ attempts[3] = "ok"

\* C3: when every one of the MAX_RETRIES attempts fails, download_reel
\* raises ErrorDownload; whenever it raises, MAX_RETRIES attempts were made
\* and all failed, the exception carries the error of the last attempt and
\* the count MAX_RETRIES + 1.
C3_TerminalFailure ==
    /\ (Len(attempts) = MAX_RETRIES /\ Failed(MAX_RETRIES)) => dl = "raised"
    /\ dl = "raised" =>
            /\ Len(attempts) = MAX_RETRIES
            /\ \A k \in 1..MAX_RETRIES : Failed(k)
            /\ raised.type = "ErrorDownload"
            /\ raised.error = [set |-> TRUE, e |-> attempts[MAX_RETRIES],
                               shortcode |-> reel_id]
            /\ raised.count = MAX_RETRIES + 1

\* download_reel has raised after three attempts that failed in three
\* different ways
C3_Witness ==
    /\ dl = "raised"
    /\ Len(attempts) = MAX_RETRIES
    /\ attempts[1] # attempts[MAX_RETRIES]
    /\ attempts[2] # attempts[MAX_RETRIES]


\* ------------------------------------------------- the handler's effects
\* The positions of the calls of one kind in the trace
Calls(cmd) == {i \in DOMAIN log : log[i].cmd = cmd}

\* The last call of the trace is cmd
LastCall(cmd) == Len(log) >= 1 /\ log[Len(log)].cmd = cmd

\* https://instagram.com/reel/<identifier>, written out
CanonicalLink(id) ==
    <<"h","t","t","p","s",":","/","/","i","n","s","t","a","g","r","a","m",
      ".","c","o","m","/","r","e","e","l","/">> \o id

\* handle_message has ended, by returning or by an exception
Ended == pc \in {"done", "crashed"}

\* download_reel raised ErrorDownload while this message was handled
FetchExhausted ==
    \E i \in Calls("download_reel") : log[i].out = "ErrorDownload"

\* C4: the delivery mode follows from is_link_only alone.  Every video sent
\* for a text that is one link in full is a standalone post, every video
\* sent for any other text is a threaded reply to the original, both with the
\* caption https://instagram.com/reel/<identifier>; once the fetch and the
\* activity signal after it have succeeded the handler issues that call; the
\* delete is issued only right after a standalone send that succeeded, and a
\* message that is not one link in full is never deleted.
C4_DeliveryMode ==
    /\ \A i \in Calls("send_video") :
            /\ FullMatch(update.text)
            /\ ~log[i].reply
            /\ log[i].caption = CanonicalLink(log[i].reel)
    /\ \A i \in Calls("reply_video") :
            /\ ~FullMatch(update.text)
            /\ log[i].reply
            /\ log[i].caption = CanonicalLink(log[i].reel)
    /\ \A i \in Calls("delete") :
            /\ FullMatch(update.text)
            /\ i > 1
            /\ log[i - 1].cmd = "send_video"
            /\ log[i - 1].out = "ok"
            /\ log[i - 1].reel = log[i].reel
    /\ deleted => \E i \in Calls("delete") : log[i].out = "ok"
    /\ ~FullMatch(update.text) => ~deleted /\ Calls("delete") = {}
    /\ (/\ Len(log) >= 2
        /\ log[Len(log)].cmd = "send_chat_action" /\ log[Len(log)].out = "ok"
        /\ log[Len(log) - 1].cmd = "download_reel" /\ log[Len(log) - 1].out = "ok")
       => pc = IF FullMatch(update.text) THEN "send_video" ELSE "reply_video"
    /\ (LastCall("send_video") /\ log[Len(log)].out = "ok") => pc = "delete"

\* A link-only message whose video was sent standalone and which was then
\* deleted
C4_Witness ==
    /\ pc = "done"
    /\ deleted
    /\ FullMatch(update.text)
    /\ \E i \in Calls("send_video") : log[i].out = "ok"

\* C5: for a link-only message with permission granted whose fetch raised
\* ErrorDownload, no delete, no video and no text is ever sent and the
\* original stays; the handler issues set_reaction on the original exactly
\* once, and the reaction is attached when that call succeeds.
C5_ExhaustedFetchLinkOnly ==
    (FullMatch(update.text) /\ permitted = "True" /\ FetchExhausted) =>
        /\ ~deleted
        /\ \A i \in DOMAIN log :
              log[i].cmd \notin {"delete", "send_video", "reply_video", "reply_text"}
        /\ pc \in {"set_reaction", "done", "crashed"}
        /\ pc = "set_reaction" => Calls("set_reaction") = {} /\ ~reaction
        /\ Ended =>
              /\ Cardinality(Calls("set_reaction")) = 1
              /\ LastCall("set_reaction")
              /\ log[Len(log)].reel = reel_matches[1]
              /\ reaction <=> log[Len(log)].out = "ok"
              /\ pc = "done" <=> log[Len(log)].out = "ok"

\* A link-only message whose three attempts failed and which now carries
\* the reaction
C5_Witness ==
    /\ pc = "done"
    /\ FullMatch(update.text)
    /\ FetchExhausted
    /\ reaction
    /\ ~deleted

\* check_bot_permissions returned a falsy value
GateDenied == permitted \in {"False", "None"}

\* Nothing but the lookup and the notice has been done for this message
NoProcessing ==
    /\ \A i \in DOMAIN log : log[i].cmd \in {"get_member", "reply_text"}
    /\ ~deleted
    /\ ~reaction
    /\ dl = "idle"
    /\ pc \in {"gate_returned", "reply_text", "done", "crashed"}

C7_EveryIdentifierHasItsTurn ==
    (Ended /\ permitted = "True") =>
        \A k \in 1..Len(reel_matches) :
            \E i \in DOMAIN log : log[i].reel = reel_matches[k]

\* C8: in a private chat check_bot_permissions returns True and get_member
\* is never called.
C8_PrivateNoLookup ==
    update.chatType = "private" =>
        /\ Calls("get_member") = {}
        /\ pc # "get_member"
        /\ (pc # "start" /\ effective_message_present /\ update.text # <<>>)
              => permitted = "True"

\* The gate has just returned for a private chat
C8_Witness ==
    /\ update.chatType = "private"
    /\ pc = "gate_returned"
    /\ permitted = "True"

\* The three required capabilities of the record are all present and true
AllThreeTrue(m) ==
    /\ m.rights["can_send_messages"] = "True"
    /\ m.rights["can_send_media_messages"] = "True"
    /\ m.rights["can_send_other_messages"] = "True"

\* The gate has just returned after get_member returned an administrator
GateSawAdministrator ==
    pc = "gate_returned" /\ bot_member.status = "administrator"

\* C9 as stated: for an administrator record the gate returns True when
\* the three capabilities are true and False when one is false or missing,
\* in every chat type.
C9_AdminNeedsAllThree ==
    GateSawAdministrator =>
        permitted = IF AllThreeTrue(bot_member) THEN "True" ELSE "False"

\* C9 as amended: the same outside supergroups; in a supergroup an
\* administrator record is authorized whatever its capabilities.
C9_AdminNeedsAllThreeOutsideSupergroup ==
    GateSawAdministrator =>
        permitted = IF update.chatType = "supergroup" \/ AllThreeTrue(bot_member)
                    THEN "True" ELSE "False"

\* In a group, an administrator record with one capability missing and the
\* others true is denied
C9_Witness ==
    /\ GateSawAdministrator
    /\ update.chatType = "group"
    /\ bot_member.rights["can_send_media_messages"] = "missing"
    /\ bot_member.rights["can_send_messages"] = "True"
    /\ bot_member.rights["can_send_other_messages"] = "True"
    /\ permitted = "False"

\* C10 as stated: the lookup is made at most once; when it fails, or returns
\* a status that is neither administrator nor member, the gate returns a
\* falsy value and no exception leaves it.
C10_LookupFailureIsDenial ==
    /\ Cardinality(Calls("get_member")) <= 1
    /\ (LastCall("get_member") /\ log[Len(log)].out # "ok") =>
            pc = "gate_returned" /\ GateDenied
    /\ (pc = "gate_returned" /\ bot_member.status \in {"restricted", "left"}) =>
            GateDenied

\* The outcome of every collaborator call made so far was success
AllCallsOk == \A i \in DOMAIN log : log[i].out = "ok"

\* C11 as stated: a channel post is handled as a message is.  For a channel
\* post with permission granted whose text contains an identifier, the
\* handler reaches the failure signal only after a call of it has failed,
\* and once it has ended with every call successful the fetch was invoked
\* for the identifier, its video was sent and no reaction was attached.
C11_ChannelPostHandledAsMessage ==
    (update.kind = "channel_post" /\ permitted = "True" /\ AllCallsOk) =>
        /\ pc # "set_reaction"
        /\ Calls("set_reaction") = {}
        /\ (Ended /\ Len(reel_matches) >= 1) =>
              /\ \E i \in Calls("download_reel") : log[i].reel = reel_matches[1]
              /\ \E i \in Calls("send_video") \cup Calls("reply_video") :
                    log[i].reel = reel_matches[1]
              /\ ~reaction

\* C12 as stated: whatever the transport calls do, handle_message never
\* ends by an exception: every failure of reply_text, send_chat_action,
\* send_video, reply_video, delete, set_reaction or get_member is caught
\* inside it.
C12_NoExceptionLeavesHandler ==
    /\ exc = "none"
    /\ pc # "crashed"

\* White space as str.strip() understands it, among the characters used
Whitespace == {" ", "\n"}

RECURSIVE LStrip(_)
LStrip(s) == IF s # <<>> /\ Head(s) \in Whitespace THEN LStrip(Tail(s)) ELSE s

RECURSIVE RStrip(_)
RStrip(s) ==
    IF s # <<>> /\ s[Len(s)] \in Whitespace
    THEN RStrip(SubSeq(s, 1, Len(s) - 1)) ELSE s

\* The text without its leading and trailing white space
Trim(s) == RStrip(LStrip(s))

\* handle_message has computed reel_matches and is_link_only
Extracted ==
    permitted = "True" /\ pc \notin {"start", "get_member", "gate_returned"}

\* C13 as stated: once the extraction has run, is_link_only is true exactly
\* when the text, trimmed of leading and trailing white space, matches the
\* link grammar in full; a text whose trimmed form does not match in full,
\* because of a character before or after the link, has is_link_only false.
C13_LinkOnlyIffTrimmedTextMatches ==
    Extracted => (is_link_only <=> FullMatch(Trim(update.text)))

\* The position of an identifier among those extracted from the text
Pos(id) == CHOOSE k \in 1..Len(reel_matches) : reel_matches[k] = id

\* The outcome of the k-th identifier was signalled by one of the first n
\* calls: its video was sent or the reaction was attached
SignalledWithin(k, n) ==
    \E i \in 1..n :
        /\ log[i].reel = reel_matches[k]
        /\ log[i].out = "ok"
        /\ log[i].cmd \in {"send_video", "reply_video", "set_reaction"}

\* The handler is inside an iteration of the for loop
InIteration ==
    pc \in {"chat_action_1", "download", "sleep", "chat_action_2",
            "send_video", "delete", "reply_video", "set_reaction"}

\* C14: whatever the handlers of other messages do in between, one handler
\* works on one identifier at a time, in the order of the text.  The calls
\* made for the identifiers never go back to an earlier identifier, every
\* call made for an identifier comes after the outcome of each identifier
\* before it was signalled, and while an iteration or a fetch is in progress
\* it is the one of the identifier at idx: every earlier identifier has its
\* outcome and no call was made for a later one.
C14_OneIdentifierAtATime ==
    /\ \A j \in DOMAIN log : log[j].reel # <<>> =>
          /\ \A i \in 1..(j - 1) :
                log[i].reel # <<>> => Pos(log[i].reel) <= Pos(log[j].reel)
          /\ \A k \in 1..(Pos(log[j].reel) - 1) : SignalledWithin(k, j - 1)
    /\ dl # "idle" => pc \in {"download", "sleep", "chat_action_2", "set_reaction"}
    /\ InIteration =>
          /\ idx \in 1..Len(reel_matches)
          /\ \A k \in 1..(idx - 1) : SignalledWithin(k, Len(log))
          /\ \A i \in DOMAIN log : log[i].reel # <<>> => Pos(log[i].reel) <= idx

\* The fetch of the second identifier is running after the video of the
\* first one was sent, and the handler of another message has since left
\* the file of the first shortcode empty
C14_Witness ==
    /\ pc = "download"
    /\ idx = 2
    /\ \E i \in Calls("reply_video") : log[i].reel = reel_matches[1] /\ log[i].out = "ok"
    /\ fs[VideoPath(reel_matches[1])] = File(0)

\* C15: one download_reel call makes at most MAX_RETRIES attempts, whatever
\* the provider does; a successful attempt is the last one of the call:
\* download_reel has returned at it and the handler is at the call that
\* follows, and every suspension of the call came after an attempt that
\* failed, so none follows the success.
C15_AtMostMaxRetriesStopAtSuccess ==
    /\ Len(attempts) <= MAX_RETRIES
    /\ \A k \in DOMAIN attempts :
          attempts[k] = "ok" =>
              /\ k = Len(attempts)
              /\ dl = "returned"
              /\ pc = "chat_action_2"
    /\ Len(sleeps) <= MAX_RETRIES - 1
    /\ \A i \in DOMAIN sleeps :
          /\ sleeps[i].after \in DOMAIN attempts
          /\ attempts[sleeps[i].after] # "ok"

\* download_reel has returned at its second attempt, after one failure of
\* download_post and one suspension
C15_Witness ==
    /\ dl = "returned"
    /\ attempts = <<"DownloadPostError", "ok">>
    /\ Len(sleeps) = 1
    /\ retry_count = 2

\* C16 as stated: a failure of send_chat_action changes nothing for the
\* identifier.  Right after a failed first indicator the fetch is running;
\* right after a failed second indicator, which follows a fetch that
\* succeeded, the handler is at the delivery call; and set_reaction is never
\* the call that follows a send_chat_action.
C16_ActivityIndicatorIsBestEffort ==
    /\ (LastCall("send_chat_action") /\ log[Len(log)].out # "ok") =>
          IF Len(log) >= 2 /\ log[Len(log) - 1].cmd = "download_reel"
          THEN pc \in {"send_video", "reply_video"}
          ELSE pc = "download" /\ dl = "running"
    /\ \A i \in Calls("set_reaction") :
          i > 1 => log[i - 1].cmd # "send_chat_action"

\* The text of the message contains no identifier
NoIdentifier == FindAll(update.text) = <<>>

\* No fetch was started, nothing was deleted and no reaction was attached
NothingFetchedOrMarked ==
    /\ dl = "idle"
    /\ Calls("download_reel") = {}
    /\ ~deleted
    /\ ~reaction

\* C17 as stated: for a text without identifier the handler issues no chat
\* command and no fetch, whatever the chat type and the rights: the only
\* call it may make is the membership lookup of the gate.
C17_NoIdentifierNoCommand ==
    NoIdentifier =>
        /\ \A i \in DOMAIN log : log[i].cmd = "get_member"
        /\ pc # "reply_text"
        /\ NothingFetchedOrMarked

\* C17 as amended: for a text without identifier the handler never fetches,
\* sends an indicator or a video, deletes or reacts.  When the gate grants,
\* it issues no chat command at all and returns right after the extraction;
\* the text notice is issued only when the gate has denied outside a
\* channel, as for any other text.
C17_NoIdentifierNoProcessing ==
    NoIdentifier =>
        /\ \A i \in DOMAIN log : log[i].cmd \in {"get_member", "reply_text"}
        /\ NothingFetchedOrMarked
        /\ pc \in {"start", "get_member", "gate_returned", "reply_text",
                   "done", "crashed"}
        /\ (pc = "reply_text" \/ Calls("reply_text") # {}) =>
              GateDenied /\ update.chatType # "channel"
        /\ permitted = "True" =>
              /\ \A i \in DOMAIN log : log[i].cmd = "get_member"
              /\ pc \in {"gate_returned", "done"}
              /\ pc = "done" => reel_matches = <<>> /\ idx = 1

\* A group message "hi" for which the gate granted: the extraction found
\* nothing and the handler has returned with the lookup as its only call
C17_Witness ==
    /\ update.chatType = "group"
    /\ update.text = <<"h", "i">>
    /\ permitted = "True"
    /\ pc = "done"
    /\ idx = 1
    /\ Len(log) = 1

\* The handling of the message eventually ends, by a return or an exception
Terminates == <>Ended

\* How far the handler is from the end of its current stretch: the gate, or
\* one iteration of the loop with the attempts download_reel has left
PcRank ==
    CASE pc = "start" -> 3
      [] pc = "get_member" -> 2
      [] pc = "gate_returned" -> 1
      [] pc = "reply_text" -> 1
      [] pc = "chat_action_1" -> 20
      [] pc = "download" -> 12 + 2 * (MAX_RETRIES - Len(attempts))
      [] pc = "sleep" -> 13 + 2 * (MAX_RETRIES - Len(attempts))
      [] pc = "chat_action_2" -> 5
      [] pc = "send_video" -> 4
      [] pc = "reply_video" -> 4
      [] pc = "delete" -> 3
      [] pc = "set_reaction" -> 2
      [] OTHER -> 0

\* A natural number that bounds the steps the handler has left
Rank ==
    IF pc \in {"start", "get_member", "gate_returned"} THEN 1000 + PcRank
    ELSE IF Ended \/ pc = "reply_text" THEN PcRank
    ELSE 30 * (Len(reel_matches) - idx + 1) + PcRank

\* Every step of the handler brings it closer to its end, so that under
\* FairSpec, where no enabled step is put off forever, Terminates holds
EveryStepDecreasesRank == [][Rank' < Rank]_vars

\* C18 as stated, at the moment of completion: once the handling of a
\* permitted message has ended, every extracted identifier has a signalled
\* outcome: its video was sent or the reaction was attached for it.
C18_CompletionSignalsEveryIdentifier ==
    (Ended /\ permitted = "True") =>
        \A k \in 1..Len(reel_matches) : SignalledWithin(k, Len(log))

\* C19 as stated: the video and the thumbs-down exclude each other.  The
\* handler never issues set_reaction, and is never about to, once a
\* send_video of this message has succeeded (a standalone send belongs to
\* the only identifier of its message), and set_reaction is never the call
\* that follows a reply_video that succeeded.
C19_MediaExcludesReaction ==
    /\ (pc = "set_reaction" \/ Calls("set_reaction") # {}) =>
          \A i \in Calls("send_video") : log[i].out # "ok"
    /\ \A i \in Calls("set_reaction") :
          i > 1 => ~(log[i - 1].cmd = "reply_video" /\ log[i - 1].out = "ok")
    /\ (LastCall("reply_video") /\ log[Len(log)].out = "ok") => pc # "set_reaction"

\* The handler has issued the delete of the original, or is about to
DeleteIssued == pc = "delete" \/ Calls("delete") # {}

\* C20: whenever the delete of the original has been issued or is the next
\* call, is_link_only holds, download_reel returned for the identifier and
\* the send_video for it completed without error, in this order, with the
\* delete right after the send; a fetch that raised or a send_video that
\* failed is never followed by a delete, and the original is gone only when
\* a delete succeeded.
C20_DeleteOnlyAfterStandaloneSend ==
    /\ DeleteIssued =>
          /\ is_link_only
          /\ Len(reel_matches) = 1
          /\ \E i \in Calls("download_reel"), j \in Calls("send_video") :
                /\ i < j
                /\ log[i].out = "ok" /\ log[i].reel = reel_matches[1]
                /\ log[j].out = "ok" /\ log[j].reel = reel_matches[1]
                /\ ~log[j].reply
                /\ IF pc = "delete" THEN j = Len(log)
                   ELSE j + 1 \in Calls("delete")
          /\ Cardinality(Calls("delete")) <= 1
          /\ ~FetchExhausted
    /\ (FetchExhausted \/ \E j \in Calls("send_video") : log[j].out # "ok") =>
          ~DeleteIssued /\ ~deleted
    /\ (deleted <=> \E i \in Calls("delete") : log[i].out = "ok")

\* The delete was issued after a standalone send and failed: the original
\* stays and the handler is at the failure signal
C20_Witness ==
    /\ pc = "set_reaction"
    /\ LastCall("delete")
    /\ log[Len(log)].out = "BadRequest"
    /\ ~deleted
    /\ is_link_only

====
